---------------------------- MODULE Spec2Model ----------------------------
(***************************************************************************)
(* A model of src/main.py: the distribution detector (OSUtils), the three  *)
(* backends, the PackageManager facade, the DependencyResolver, the        *)
(* Transaction helper and the ConfigLoader.                                *)
(*                                                                         *)
(* Python strings are TLA+ strings; Len, SubSeq and \o act on them as the  *)
(* Python operations len, slicing and + do.  Every call of the program is  *)
(* one action; `log' holds the events of the most recent call (facade      *)
(* calls, external commands with their exit status, raises), `outcome'     *)
(* how that call ended.                                                    *)
(*                                                                         *)
(* Lines 311 and 313 of src/main.py read `action[2](@ref)' and             *)
(* `action[1](@ref)': a stray "(@ref)" has replaced the closing            *)
(* parenthesis.  The model reads them as the calls they stand for,         *)
(* self.pm.install(action[1], action[2]) and self.pm.remove(action[1]).    *)
(***************************************************************************)
EXTENDS Naturals, Sequences, FiniteSets, TLC

VARIABLES
    osRelease,   \* /etc/os-release: [exists, lines]
    hostId,      \* history: the ID the descriptor file was written to declare
    isRoot,      \* os.getuid() == 0
    configFile,  \* the config file batch_install is pointed at: [path, data]
    queryOut,    \* what a query command of the package manager prints: [lines, text]
    pm,          \* the PackageManager: [made, backend]
    actions,     \* Transaction.actions
    txPhase,     \* history: the spec's Building / Committed / Failed
    lastCall,    \* the name of the most recent call
    log,         \* the events of the most recent call, in order
    outcome,     \* how the most recent call ended: [kind, exc, detail, value]
    proc         \* the process: [alive, status], status set by sys.exit

vars == <<osRelease, hostId, isRoot, configFile, queryOut, pm, actions, txPhase,
          lastCall, log, outcome, proc>>

-----------------------------------------------------------------------------
(* Bounds of the model.                                                    *)

MaxIdParts == 2
MaxActions == 3
MaxEntries == 2
MaxOutLines == 3

-----------------------------------------------------------------------------
(* Python values.  A name or a version is a string or None; what           *)
(* get_distro and the is_*_based classmethods return is None, a dict or a  *)
(* bool, held here with its type.                                          *)

None == "<None>"

PyNone == [t |-> "None"]

PyDict(d) == [t |-> "dict", d |-> d]

PyBool(b) == [t |-> "bool", b |-> b]

EmptyDict == [k \in {} |-> ""]

\* bool(v): None, {} and False are falsy
Truthy(v) ==
    CASE v.t = "None" -> FALSE
      [] v.t = "dict" -> DOMAIN v.d # {}
      [] v.t = "bool" -> v.b

\* bool(s) of a string or None: None and '' are falsy
TruthyStr(s) == ~(s = None \/ s = "")

\* str(x), as an f-string formats a string or None
Str(x) == IF x = None THEN "None" ELSE x

\* d.get(key, default)
Get(d, key, default) == IF key \in DOMAIN d THEN d[key] ELSE default

\* d[key] = value
Put(d, key, value) ==
    [k \in DOMAIN d \cup {key} |-> IF k = key THEN value ELSE d[k]]

-----------------------------------------------------------------------------
(* Python string operations.                                               *)

Char(s, i) == SubSeq(s, i, i)

Tail_(s) == SubSeq(s, 2, Len(s))

Whitespace == {" ", "\n", "\t", "\r"}

\* needle in hay
Contains(hay, needle) ==
    \E i \in 0..Len(hay) :
        i + Len(needle) <= Len(hay) /\ SubSeq(hay, i + 1, i + Len(needle)) = needle

\* hay.find(needle) + 1, and 0 when needle is not in hay
Find(hay, needle) ==
    IF Contains(hay, needle)
    THEN CHOOSE i \in 1..(Len(hay) + 1) :
            /\ i + Len(needle) - 1 <= Len(hay)
            /\ SubSeq(hay, i, i + Len(needle) - 1) = needle
            /\ \A j \in 1..(i - 1) : SubSeq(hay, j, j + Len(needle) - 1) # needle
    ELSE 0

LowerChar(c) ==
    CASE c = "A" -> "a" [] c = "B" -> "b" [] c = "C" -> "c" [] c = "D" -> "d"
      [] c = "E" -> "e" [] c = "F" -> "f" [] c = "G" -> "g" [] c = "H" -> "h"
      [] c = "I" -> "i" [] c = "L" -> "l" [] c = "M" -> "m" [] c = "N" -> "n"
      [] c = "O" -> "o" [] c = "R" -> "r" [] c = "S" -> "s" [] c = "T" -> "t"
      [] c = "U" -> "u" [] OTHER -> c

RECURSIVE Lower(_)
\* s.lower()
Lower(s) == IF s = "" THEN "" ELSE LowerChar(Char(s, 1)) \o Lower(Tail_(s))

RECURSIVE LStrip(_, _)
LStrip(s, chars) ==
    IF s # "" /\ Char(s, 1) \in chars THEN LStrip(Tail_(s), chars) ELSE s

RECURSIVE RStrip(_, _)
RStrip(s, chars) ==
    IF s # "" /\ Char(s, Len(s)) \in chars
    THEN RStrip(SubSeq(s, 1, Len(s) - 1), chars)
    ELSE s

\* s.strip(chars); s.strip() is Strip(s, Whitespace)
Strip(s, chars) == RStrip(LStrip(s, chars), chars)

RECURSIVE Split(_, _, _)
\* s.split(sep, maxsplit), maxsplit = -1 written as Len(s)
Split(s, sep, maxsplit) ==
    LET i == Find(s, sep)
    IN  IF i = 0 \/ maxsplit = 0
        THEN <<s>>
        ELSE <<SubSeq(s, 1, i - 1)>>
             \o Split(SubSeq(s, i + Len(sep), Len(s)), sep, maxsplit - 1)

RECURSIVE SplitLines(_)
\* s.splitlines() of a text whose only line break is "\n" (text=True has
\* translated the others): no empty last line after a final line break
SplitLines(s) ==
    LET i == Find(s, "\n")
    IN  IF s = "" THEN <<>>
        ELSE IF i = 0 THEN <<s>>
        ELSE <<SubSeq(s, 1, i - 1)>> \o SplitLines(SubSeq(s, i + 1, Len(s)))

-----------------------------------------------------------------------------
(* OSUtils: the distribution detector.                                     *)

RECURSIVE ParseOsRelease(_, _)
\* the loop of get_distro over the lines of the file
ParseOsRelease(lines, os_release) ==
    IF lines = <<>> THEN os_release
    ELSE LET line == Head(lines)
             kv   == Split(Strip(line, Whitespace), "=", 1)
         IN  IF Contains(line, "=")
             THEN ParseOsRelease(Tail(lines),
                                 Put(os_release, kv[1], Strip(kv[2], {"\""})))
             ELSE ParseOsRelease(Tail(lines), os_release)

get_distro(file) ==
    IF file.exists THEN PyDict(ParseOsRelease(file.lines, EmptyDict)) ELSE PyNone

\* the ID compared as it is written, without lower()
IdAsWritten(distro) == Get(distro.d, "ID", "")

\* distro.get('ID', '').lower()
IdLower(distro) == Lower(Get(distro.d, "ID", ""))

\* `distro and (...)': distro itself when it is falsy (None or {})
is_debian_based(file) ==
    LET distro == get_distro(file)
    IN  IF Truthy(distro)
        THEN PyBool(Contains(IdLower(distro), "debian")
                    \/ Contains(IdLower(distro), "ubuntu"))
        ELSE distro

is_redhat_based(file) ==
    LET distro == get_distro(file)
    IN  IF Truthy(distro)
        THEN PyBool(Contains(IdLower(distro), "rhel")
                    \/ Contains(IdLower(distro), "centos")
                    \/ Contains(IdLower(distro), "fedora"))
        ELSE distro

is_arch_based(file) ==
    LET distro == get_distro(file)
    IN  IF Truthy(distro) THEN PyBool(Contains(IdLower(distro), "arch")) ELSE distro

is_gentoo_based(file) ==
    LET distro == get_distro(file)
    IN  IF Truthy(distro) THEN PyBool(Contains(IdLower(distro), "gentoo")) ELSE distro

\* os.getuid() == 0
is_admin(root) == root

-----------------------------------------------------------------------------
(* Events of a call, and how a call ends.                                  *)

\* a method of the facade, the transaction or the resolver is entered
EvCall(op, args) == [ev |-> "call", op |-> op, args |-> args]

\* subprocess.run has executed argv; rc is the exit status of the command
EvRun(argv, rc) == [ev |-> "run", argv |-> argv, rc |-> rc]

\* an exception is raised
EvRaise(exc) == [ev |-> "raise", exc |-> exc]

\* sys.exit(status)
EvExit(status) == [ev |-> "exit", status |-> status]

\* open(file_path)
EvOpen(path) == [ev |-> "open", path |-> path]

Returned(value) == [kind |-> "return", exc |-> "", detail |-> <<>>, value |-> value]

Raised(exc, detail) == [kind |-> "raise", exc |-> exc, detail |-> detail, value |-> None]

SystemExit(status) ==
    [kind |-> "exit", exc |-> "SystemExit", detail |-> <<status>>, value |-> None]

\* the events and the end of a piece of code
Ran(events, end) == [log |-> events, end |-> end]

\* first; second: second runs only when first returns
Then(first, second) ==
    IF first.end.kind = "return"
    THEN Ran(first.log \o second.log, second.end)
    ELSE first

\* a method is entered
Entered(op, args) == Ran(<<EvCall(op, args)>>, Returned(None))

\* subprocess.run(cmd, check=True): an argument that is no string raises
\* TypeError before anything is executed; a non-zero exit status raises
\* CalledProcessError
subprocess_run_check(cmd, rc) ==
    IF \E i \in 1..Len(cmd) : cmd[i] = None
    THEN Ran(<<EvRaise("TypeError")>>, Raised("TypeError", <<>>))
    ELSE IF rc # 0
    THEN Ran(<<EvRun(cmd, rc), EvRaise("CalledProcessError")>>,
             Raised("CalledProcessError", cmd))
    ELSE Ran(<<EvRun(cmd, rc)>>, Returned(rc))

\* subprocess.run(cmd, capture_output=True, text=True).stdout: never raises on
\* a non-zero exit status
subprocess_run_capture(cmd, rc, stdout) ==
    Ran(<<EvRun(cmd, rc)>>, Returned(stdout))

-----------------------------------------------------------------------------
(* The backends.                                                           *)

BackendKinds == {"APT", "DNF", "Pacman"}

InstallCmd(kind) ==
    CASE kind = "APT"    -> <<"sudo", "apt", "install", "-y">>
      [] kind = "DNF"    -> <<"sudo", "dnf", "install", "-y">>
      [] kind = "Pacman" -> <<"sudo", "pacman", "-S", "--noconfirm">>

\* the separator of the f-string that qualifies a package with its version
VersionSep(kind) == IF kind = "APT" THEN "=" ELSE "-"

RemoveCmd(kind) ==
    CASE kind = "APT"    -> <<"sudo", "apt", "remove", "-y">>
      [] kind = "DNF"    -> <<"sudo", "dnf", "remove", "-y">>
      [] kind = "Pacman" -> <<"sudo", "pacman", "-R", "--noconfirm">>

UpdateCmd(kind) ==
    CASE kind = "APT"    -> <<"sudo", "apt", "update">>
      [] kind = "DNF"    -> <<"sudo", "dnf", "check-update">>
      [] kind = "Pacman" -> <<"sudo", "pacman", "-Sy">>

UpgradeCmd(kind) ==
    CASE kind = "APT"    -> <<"sudo", "apt", "upgrade", "-y">>
      [] kind = "DNF"    -> <<"sudo", "dnf", "upgrade", "-y">>
      [] kind = "Pacman" -> <<"sudo", "pacman", "-Su", "--noconfirm">>

SearchCmd(kind) ==
    CASE kind = "APT"    -> <<"apt-cache", "search">>
      [] kind = "DNF"    -> <<"dnf", "search">>
      [] kind = "Pacman" -> <<"pacman", "-Ss">>

ListCmd(kind) ==
    CASE kind = "APT"    -> <<"dpkg", "--list">>
      [] kind = "DNF"    -> <<"rpm", "-qa">>
      [] kind = "Pacman" -> <<"pacman", "-Q">>

backend_install(kind, package, version, rc) ==
    Then(Entered("backend.install", <<package, version>>),
         subprocess_run_check(
             Append(InstallCmd(kind),
                    IF TruthyStr(version)
                    THEN Str(package) \o VersionSep(kind) \o Str(version)
                    ELSE package),
             rc))

backend_remove(kind, package, rc) ==
    Then(Entered("backend.remove", <<package>>),
         subprocess_run_check(Append(RemoveCmd(kind), package), rc))

backend_update(kind, rc) ==
    Then(Entered("backend.update", <<>>), subprocess_run_check(UpdateCmd(kind), rc))

backend_upgrade(kind, rc) ==
    Then(Entered("backend.upgrade", <<>>), subprocess_run_check(UpgradeCmd(kind), rc))

backend_search(kind, package, rc, stdout) ==
    Then(Entered("backend.search", <<package>>),
         subprocess_run_capture(Append(SearchCmd(kind), package), rc, stdout))

backend_list_installed(kind, rc, stdout) ==
    Then(Entered("backend.list_installed", <<>>),
         subprocess_run_capture(ListCmd(kind), rc, stdout))

-----------------------------------------------------------------------------
(* The PackageManager facade.                                              *)

\* the check reporting the missing privilege without leaving the process
check_admin_no_exit(root) == Ran(<<>>, Returned(None))

check_admin_or_exit(root) ==
    IF ~is_admin(root)
    THEN Ran(<<EvExit(1)>>, SystemExit(1))
    ELSE Ran(<<>>, Returned(None))

\* the families tried in another order, arch-like first
get_backend_arch_first(file) ==
    IF Truthy(is_arch_based(file)) THEN "Pacman"
    ELSE IF Truthy(is_debian_based(file)) THEN "APT"
    ELSE IF Truthy(is_redhat_based(file)) THEN "DNF"
    ELSE ""

\* the backend _get_backend returns, "" when it raises
\* UnsupportedDistributionError
get_backend(file) ==
    IF Truthy(is_debian_based(file)) THEN "APT"
    ELSE IF Truthy(is_redhat_based(file)) THEN "DNF"
    ELSE IF Truthy(is_arch_based(file)) THEN "Pacman"
    ELSE ""

\* PackageManager()
pm_init(file) ==
    IF get_backend(file) = ""
    THEN Ran(<<EvCall("PackageManager", <<>>), EvRaise("UnsupportedDistributionError")>>,
             Raised("UnsupportedDistributionError", <<>>))
    ELSE Ran(<<EvCall("PackageManager", <<>>)>>, Returned(get_backend(file)))

pm_install(kind, root, package, version, rc) ==
    Then(Entered("install", <<package, version>>),
         Then(check_admin_or_exit(root),
              backend_install(kind, package, version, rc)))

pm_remove(kind, root, package, rc) ==
    Then(Entered("remove", <<package>>),
         Then(check_admin_or_exit(root), backend_remove(kind, package, rc)))

pm_update(kind, root, rc) ==
    Then(Entered("update", <<>>),
         Then(check_admin_or_exit(root), backend_update(kind, rc)))

pm_upgrade(kind, root, rc) ==
    Then(Entered("upgrade", <<>>),
         Then(check_admin_or_exit(root), backend_upgrade(kind, rc)))

pm_search(kind, package, rc, stdout) ==
    Then(Entered("search", <<package>>),
         backend_search(kind, package, rc, stdout))

pm_list_installed(kind, rc, stdout) ==
    Then(Entered("list_installed", <<>>),
         backend_list_installed(kind, rc, stdout))

-----------------------------------------------------------------------------
(* ConfigLoader and batch_install.  A config file is [path, data]: data is *)
(* what the YAML or JSON parser makes of its text, a dict that may hold a  *)
(* "packages" list of dicts, each of which may hold "name" and "version".  *)

EndsWith(s, suffix) ==
    Len(suffix) <= Len(s) /\ SubSeq(s, Len(s) - Len(suffix) + 1, Len(s)) = suffix

ConfigLoader_load(file) ==
    IF EndsWith(file.path, ".yaml") \/ EndsWith(file.path, ".yml")
    THEN Ran(<<EvOpen(file.path)>>, Returned(file.data))
    ELSE IF EndsWith(file.path, ".json")
    THEN Ran(<<EvOpen(file.path)>>, Returned(file.data))
    ELSE Ran(<<EvOpen(file.path), EvRaise("ValueError")>>, Raised("ValueError", <<>>))

RECURSIVE InstallEachKeepsGoing(_, _, _, _, _)
\* the loop going on to the next entry after an install has raised
InstallEachKeepsGoing(kind, root, packages, rcs, i) ==
    IF i > Len(packages) THEN Ran(<<>>, Returned(None))
    ELSE LET tried == pm_install(kind, root, Get(packages[i], "name", None),
                                 Get(packages[i], "version", None), rcs[i])
         IN  IF tried.end.kind = "raise"
             THEN Then(Ran(tried.log, Returned(None)),
                       InstallEachKeepsGoing(kind, root, packages, rcs, i + 1))
             ELSE Then(tried, InstallEachKeepsGoing(kind, root, packages, rcs, i + 1))

RECURSIVE InstallEach(_, _, _, _, _)
\* the for loop of batch_install over config.get('packages', []), from entry i;
\* rcs[i] is the exit status the command of entry i meets
InstallEach(kind, root, packages, rcs, i) ==
    IF i > Len(packages) THEN Ran(<<>>, Returned(None))
    ELSE Then(pm_install(kind, root, Get(packages[i], "name", None),
                         Get(packages[i], "version", None), rcs[i]),
              InstallEach(kind, root, packages, rcs, i + 1))

pm_batch_install(kind, root, file, rcs) ==
    Then(Entered("batch_install", <<file.path>>),
         Then(check_admin_or_exit(root),
              LET loaded == ConfigLoader_load(file)
              IN  IF loaded.end.kind = "return"
                  THEN Then(loaded,
                            InstallEach(kind, root,
                                        Get(loaded.end.value, "packages", <<>>),
                                        rcs, 1))
                  ELSE loaded))

-----------------------------------------------------------------------------
(* DependencyResolver.                                                     *)

\* The marker _resolve_apt looks for: the two CJK characters U+4F9D U+8D56
\* followed by an ASCII colon, written here with a stand-in for the two.
Marker == "{yilai}:"

RECURSIVE AptDependenciesAll(_, _)
\* the loop appending every entry, seen before or not
AptDependenciesAll(lines, dependencies) ==
    IF lines = <<>> THEN dependencies
    ELSE LET line == Head(lines)
             dep  == Strip(Split(line, Marker, Len(line))[2], Whitespace)
         IN  IF Contains(line, Marker)
             THEN AptDependenciesAll(Tail(lines), Append(dependencies, dep))
             ELSE AptDependenciesAll(Tail(lines), dependencies)

RECURSIVE AptDependencies(_, _)
\* the for loop of _resolve_apt over result.stdout.split('\n')
AptDependencies(lines, dependencies) ==
    IF lines = <<>> THEN dependencies
    ELSE LET line == Head(lines)
             dep  == Strip(Split(line, Marker, Len(line))[2], Whitespace)
         IN  IF Contains(line, Marker)
             THEN IF \E i \in 1..Len(dependencies) : dependencies[i] = dep
                  THEN AptDependencies(Tail(lines), dependencies)
                  ELSE AptDependencies(Tail(lines), Append(dependencies, dep))
             ELSE AptDependencies(Tail(lines), dependencies)

resolve_apt(package, rc, stdout) ==
    LET result == subprocess_run_capture(<<"apt-cache", "depends", package>>, rc, stdout)
    IN  Ran(result.log,
            Returned(AptDependencies(Split(result.end.value, "\n", Len(result.end.value)),
                                     <<>>)))

resolve_dnf(package, rc, stdout) ==
    LET result == subprocess_run_capture(<<"dnf", "repoquery", "--requires", package>>,
                                         rc, stdout)
    IN  Ran(result.log, Returned(SplitLines(result.end.value)))

resolve_pacman(package, rc, stdout) ==
    LET result == subprocess_run_capture(<<"pactree", package>>, rc, stdout)
    IN  Ran(result.log, Returned(SplitLines(result.end.value)))

resolve(kind, package, rc, stdout) ==
    Then(Entered("resolve", <<package>>),
         CASE kind = "APT"    -> resolve_apt(package, rc, stdout)
           [] kind = "DNF"    -> resolve_dnf(package, rc, stdout)
           [] kind = "Pacman" -> resolve_pacman(package, rc, stdout))

-----------------------------------------------------------------------------
(* Transaction.                                                            *)

\* add_install putting the action first instead of last
add_install_first(acts, package, version) == <<<<"install", package, version>>>> \o acts

add_install(acts, package, version) == Append(acts, <<"install", package, version>>)

add_remove(acts, package) == Append(acts, <<"remove", package>>)

\* rollback(): the body is `pass'
rollback(acts) == Entered("rollback", <<>>)

\* str(e) of the exception a facade call raised
str_exc(end) == <<end.exc, end.detail>>

RECURSIVE CommitLoopKeepsGoing(_, _, _, _, _)
\* the loop going on to the next action after one has raised
CommitLoopKeepsGoing(kind, root, acts, rcs, i) ==
    IF i > Len(acts) THEN Ran(<<>>, Returned(None))
    ELSE LET action == acts[i]
             tried  == IF action[1] = "install"
                       THEN pm_install(kind, root, action[2], action[3], rcs[i])
                       ELSE pm_remove(kind, root, action[2], rcs[i])
         IN  IF tried.end.kind = "raise"
             THEN Then(Ran(tried.log, Returned(None)),
                       CommitLoopKeepsGoing(kind, root, acts, rcs, i + 1))
             ELSE Then(tried, CommitLoopKeepsGoing(kind, root, acts, rcs, i + 1))

RECURSIVE CommitLoopNoRollback(_, _, _, _, _)
\* the loop raising TransactionError without calling rollback
CommitLoopNoRollback(kind, root, acts, rcs, i) ==
    IF i > Len(acts) THEN Ran(<<>>, Returned(None))
    ELSE LET action == acts[i]
             tried  == IF action[1] = "install"
                       THEN pm_install(kind, root, action[2], action[3], rcs[i])
                       ELSE pm_remove(kind, root, action[2], rcs[i])
         IN  IF tried.end.kind = "raise"
             THEN Then(Ran(tried.log, Returned(None)),
                       Ran(<<EvRaise("TransactionError")>>,
                           Raised("TransactionError", <<<<action, <<>>>>>>)))
             ELSE Then(tried, CommitLoopNoRollback(kind, root, acts, rcs, i + 1))

RECURSIVE CommitLoop(_, _, _, _, _)
\* the for loop of commit over self.actions, from action i; rcs[i] is the exit
\* status the command of action i meets.  `except Exception' catches what a
\* call raises and lets SystemExit through.
CommitLoop(kind, root, acts, rcs, i) ==
    IF i > Len(acts) THEN Ran(<<>>, Returned(None))
    ELSE LET action == acts[i]
             tried  == IF action[1] = "install"
                       THEN pm_install(kind, root, action[2], action[3], rcs[i])
                       ELSE IF action[1] = "remove"
                       THEN pm_remove(kind, root, action[2], rcs[i])
                       ELSE Ran(<<>>, Returned(None))
             failed_actions == <<<<action, str_exc(tried.end)>>>>
         IN  IF tried.end.kind = "raise"
             THEN Then(Ran(tried.log, Returned(None)),
                       Then(rollback(acts),
                            Ran(<<EvRaise("TransactionError")>>,
                                Raised("TransactionError", failed_actions))))
             ELSE Then(tried, CommitLoop(kind, root, acts, rcs, i + 1))

commit(kind, root, acts, rcs) ==
    Then(Entered("commit", <<>>),
         CommitLoop(kind, root, acts, rcs, 1))

-----------------------------------------------------------------------------
(* The inputs the calls are given, and what the environment holds.         *)

Packages == {"A", "B", "C"}

Versions == {None, "1.0"}

ExitCodes == {0, 1}

\* pieces an ID value is put together from: the family keywords in mixed case,
\* and text that is no keyword
IdFragments ==
    {"debian", "Ubuntu", "rhel", "CentOS", "fedora", "arch", "GENTOO", "linux",
     "mint", "-"}

RECURSIVE IdsOf(_)
IdsOf(n) ==
    IF n = 0 THEN {""}
    ELSE IdsOf(n - 1) \cup {id \o f : id \in IdsOf(n - 1), f \in IdFragments}

File(lines) == [exists |-> TRUE, lines |-> lines]

NoFile == [exists |-> FALSE, lines |-> <<>>]

\* /etc/os-release files, each with the ID it declares (None when it declares
\* none): the ID alone, or quoted among lines of other keys that name other
\* families; the last of two ID lines is the one that counts
Hosts ==
    {[id |-> None, file |-> NoFile],
     [id |-> None, file |-> File(<<>>)],
     [id |-> None, file |-> File(<<"# Arch Linux\n", "\n">>)],
     [id |-> None, file |-> File(<<"NAME=\"Arch Linux\"\n", "ID_LIKE=debian\n">>)],
     [id |-> "gentoo", file |-> File(<<"ID=arch\n", "ID=gentoo\n">>)]}
    \cup {[id |-> id, file |-> File(<<"ID=" \o id \o "\n">>)] : id \in IdsOf(MaxIdParts)}
    \cup {[id |-> id,
           file |-> File(<<"PRETTY_NAME=\"Gentoo = Arch\"\n",
                           "ID=\"" \o id \o "\"\n",
                           "ID_LIKE=\"rhel fedora\"\n">>)] : id \in IdsOf(MaxIdParts)}

\* what the descriptor may be replaced by while the process runs
LaterHosts ==
    {[id |-> None, file |-> NoFile],
     [id |-> "gentoo", file |-> File(<<"ID=gentoo\n">>)],
     [id |-> "ubuntu", file |-> File(<<"ID=ubuntu\n">>)]}

\* the host a facade bound to `kind' was constructed on
HostOf(kind) ==
    CASE kind = "APT"    -> [id |-> "ubuntu", file |-> File(<<"ID=ubuntu\n">>)]
      [] kind = "DNF"    -> [id |-> "fedora", file |-> File(<<"ID=fedora\n">>)]
      [] kind = "Pacman" -> [id |-> "arch", file |-> File(<<"ID=arch\n">>)]

RECURSIVE SeqsUpTo(_, _)
\* the sequences of at most n members of S
SeqsUpTo(S, n) ==
    IF n = 0 THEN {<<>>}
    ELSE SeqsUpTo(S, n - 1)
         \cup {Append(q, x) : q \in SeqsUpTo(S, n - 1), x \in S}

\* an entry of a "packages" list: "name" and "version" may each be missing,
\* and a name may be empty
ConfigEntries ==
    {[k \in {"name"} |-> n] : n \in {"A", "B", ""}}
    \cup {[k \in {"name", "version"} |-> IF k = "name" THEN n ELSE "1.0"] :
            n \in {"A", "B", ""}}
    \cup {[k \in {"version"} |-> "1.0"], [k \in {} |-> ""]}

ConfigData(n) ==
    {EmptyDict} \cup {[k \in {"packages"} |-> q] : q \in SeqsUpTo(ConfigEntries, n)}

ConfigFiles(n) ==
    {[path |-> path, data |-> d] :
        path \in {"packages.yaml", "packages.json"}, d \in ConfigData(n)}
    \cup {[path |-> path, data |-> [k \in {"packages"} |-> <<[j \in {"name"} |-> "A"]>>]] :
            path \in {"packages.yml", "packages.txt", "yaml"}}

\* the config file of the example in main(), a JSON file with an entry that
\* has no name, and a file that is neither YAML nor JSON
SampleConfigs ==
    {[path |-> "packages.yaml",
      data |-> [k \in {"packages"} |->
                  <<[j \in {"name"} |-> "A"],
                    [j \in {"name", "version"} |-> IF j = "name" THEN "B" ELSE "1.0"]>>]],
     [path |-> "packages.json",
      data |-> [k \in {"packages"} |-> <<[j \in {"version"} |-> "1.0"]>>]],
     [path |-> "packages.txt", data |-> EmptyDict]}

OneConfig == {[path |-> "packages.yaml", data |-> EmptyDict]}

\* lines a dependency query prints
OutputLines ==
    {"", "a", Marker \o " a", "  " \o Marker \o " b  ", Marker \o "a" \o Marker \o "b",
     "b:", Marker}

RECURSIVE JoinLines(_)
JoinLines(lines) ==
    IF lines = <<>> THEN "" ELSE Head(lines) \o "\n" \o JoinLines(Tail(lines))

\* the text of the printed lines: each ends in a line break, which the last
\* one may lack when it is not empty
Outputs(n) ==
    {[lines |-> q, text |-> JoinLines(q)] : q \in SeqsUpTo(OutputLines, n)}
    \cup {[lines |-> q, text |-> SubSeq(JoinLines(q), 1, Len(JoinLines(q)) - 1)] :
            q \in {r \in SeqsUpTo(OutputLines, n) : r # <<>> /\ r[Len(r)] # ""}}

-----------------------------------------------------------------------------
(* The state machine.                                                      *)

Running == [alive |-> TRUE, status |-> 0]

NoCall == Returned(None)

\* a call has run: its events and its end are recorded, and sys.exit ends
\* the process
Called(name, ran) ==
    /\ lastCall' = name
    /\ log' = ran.log
    /\ outcome' = ran.end
    /\ proc' = IF ran.end.kind = "exit"
               THEN [alive |-> FALSE, status |-> ran.end.detail[1]]
               ELSE proc

\* the process starts on some host, no facade constructed yet
InitHost ==
    /\ \E h \in Hosts : osRelease = h.file /\ hostId = h.id
    /\ isRoot \in BOOLEAN
    /\ configFile \in OneConfig
    /\ queryOut \in Outputs(0)
    /\ pm = [made |-> FALSE, backend |-> ""]
    /\ actions = <<>>
    /\ txPhase = "Building"
    /\ lastCall = ""
    /\ log = <<>>
    /\ outcome = NoCall
    /\ proc = Running

\* a facade has been constructed, and a Transaction on it
InitFacade(kinds, files, outs) ==
    /\ configFile \in files
    /\ queryOut \in outs
    /\ \E kind \in kinds :
          /\ osRelease = HostOf(kind).file
          /\ hostId = HostOf(kind).id
          /\ pm = [made |-> TRUE, backend |-> get_backend(HostOf(kind).file)]
    /\ isRoot \in BOOLEAN
    /\ actions = <<>>
    /\ txPhase = "Building"
    /\ lastCall = ""
    /\ log = <<>>
    /\ outcome = NoCall
    /\ proc = Running

\* pm = PackageManager()
Construct ==
    /\ proc.alive /\ ~pm.made
    /\ LET ran == pm_init(osRelease)
       IN  /\ Called("PackageManager", ran)
           /\ pm' = IF ran.end.kind = "return"
                    THEN [made |-> TRUE, backend |-> ran.end.value]
                    ELSE pm
    /\ UNCHANGED <<osRelease, hostId, isRoot, configFile, queryOut, actions, txPhase>>

\* the four classification predicates, called one after the other
Classify ==
    /\ proc.alive
    /\ Called("classify",
              Ran(<<>>, Returned(<<is_debian_based(osRelease), is_redhat_based(osRelease),
                                   is_arch_based(osRelease), is_gentoo_based(osRelease)>>)))
    /\ UNCHANGED <<osRelease, hostId, isRoot, configFile, queryOut, pm, actions, txPhase>>

\* the environment replaces the descriptor file
ChangeOsRelease ==
    /\ proc.alive
    /\ \E h \in LaterHosts :
          /\ h.file # osRelease
          /\ osRelease' = h.file
          /\ hostId' = h.id
    /\ lastCall' = ""
    /\ log' = <<>>
    /\ outcome' = NoCall
    /\ UNCHANGED <<isRoot, configFile, queryOut, pm, actions, txPhase, proc>>

Install(pkgs, vers) ==
    /\ proc.alive /\ pm.made
    /\ \E package \in pkgs, version \in vers, rc \in ExitCodes :
          Called("install", pm_install(pm.backend, isRoot, package, version, rc))
    /\ UNCHANGED <<osRelease, hostId, isRoot, configFile, queryOut, pm, actions, txPhase>>

Remove(pkgs) ==
    /\ proc.alive /\ pm.made
    /\ \E package \in pkgs, rc \in ExitCodes :
          Called("remove", pm_remove(pm.backend, isRoot, package, rc))
    /\ UNCHANGED <<osRelease, hostId, isRoot, configFile, queryOut, pm, actions, txPhase>>

Update ==
    /\ proc.alive /\ pm.made
    /\ \E rc \in ExitCodes : Called("update", pm_update(pm.backend, isRoot, rc))
    /\ UNCHANGED <<osRelease, hostId, isRoot, configFile, queryOut, pm, actions, txPhase>>

Upgrade ==
    /\ proc.alive /\ pm.made
    /\ \E rc \in ExitCodes : Called("upgrade", pm_upgrade(pm.backend, isRoot, rc))
    /\ UNCHANGED <<osRelease, hostId, isRoot, configFile, queryOut, pm, actions, txPhase>>

Search(pkgs) ==
    /\ proc.alive /\ pm.made
    /\ \E package \in pkgs, rc \in ExitCodes :
          Called("search", pm_search(pm.backend, package, rc, queryOut.text))
    /\ UNCHANGED <<osRelease, hostId, isRoot, configFile, queryOut, pm, actions, txPhase>>

ListInstalled ==
    /\ proc.alive /\ pm.made
    /\ \E rc \in ExitCodes :
          Called("list_installed", pm_list_installed(pm.backend, rc, queryOut.text))
    /\ UNCHANGED <<osRelease, hostId, isRoot, configFile, queryOut, pm, actions, txPhase>>

\* batch_install(configFile.path)
BatchInstall ==
    /\ proc.alive /\ pm.made
    /\ \E rcs \in [1..Len(Get(configFile.data, "packages", <<>>)) -> ExitCodes] :
          Called("batch_install", pm_batch_install(pm.backend, isRoot, configFile, rcs))
    /\ UNCHANGED <<osRelease, hostId, isRoot, configFile, queryOut, pm, actions, txPhase>>

\* dependency_resolver.resolve(package)
Resolve(pkgs) ==
    /\ proc.alive /\ pm.made
    /\ \E package \in pkgs, rc \in ExitCodes :
          Called("resolve", resolve(pm.backend, package, rc, queryOut.text))
    /\ UNCHANGED <<osRelease, hostId, isRoot, configFile, queryOut, pm, actions, txPhase>>

AddInstall(pkgs, vers) ==
    /\ proc.alive /\ pm.made
    /\ Len(actions) < MaxActions
    /\ \E package \in pkgs, version \in vers :
          actions' = add_install(actions, package, version)
    /\ Called("add_install", Ran(<<>>, Returned(None)))
    /\ UNCHANGED <<osRelease, hostId, isRoot, configFile, queryOut, pm, txPhase>>

AddRemove(pkgs) ==
    /\ proc.alive /\ pm.made
    /\ Len(actions) < MaxActions
    /\ \E package \in pkgs : actions' = add_remove(actions, package)
    /\ Called("add_remove", Ran(<<>>, Returned(None)))
    /\ UNCHANGED <<osRelease, hostId, isRoot, configFile, queryOut, pm, txPhase>>

Commit ==
    /\ proc.alive /\ pm.made
    /\ \E rcs \in [1..Len(actions) -> ExitCodes] :
          LET ran == commit(pm.backend, isRoot, actions, rcs)
          IN  /\ Called("commit", ran)
              /\ txPhase' = CASE ran.end.kind = "return" -> "Committed"
                              [] ran.end.kind = "raise" -> "Failed"
                              [] OTHER -> txPhase
    /\ UNCHANGED <<osRelease, hostId, isRoot, configFile, queryOut, pm, actions>>

-----------------------------------------------------------------------------
(* The specifications.                                                     *)

\* detection and construction, then the facade's calls on one package
NextDistro ==
    \/ Construct
    \/ Classify
    \/ ChangeOsRelease
    \/ Install({"A"}, {None})
    \/ Remove({"A"})
    \/ Update
    \/ Upgrade
    \/ Search({"A"})
    \/ ListInstalled
    \/ BatchInstall
    \/ Resolve({"A"})

SpecDistro == InitHost /\ [][NextDistro]_vars

\* a Transaction on a constructed facade
NextTx ==
    \/ AddInstall(Packages, Versions)
    \/ AddRemove(Packages)
    \/ Commit

SpecTx == InitFacade({"APT", "Pacman"}, OneConfig, Outputs(0)) /\ [][NextTx]_vars

\* every call that changes the system, on a constructed facade
NextPriv ==
    \/ Install(Packages, Versions)
    \/ Remove(Packages)
    \/ Update
    \/ Upgrade
    \/ BatchInstall
    \/ AddInstall({"A"}, {None})
    \/ AddRemove({"B"})
    \/ Commit

SpecPriv == InitFacade(BackendKinds, SampleConfigs, Outputs(0)) /\ [][NextPriv]_vars

\* batch_install on a constructed facade
NextBatch == BatchInstall

SpecBatch == InitFacade(BackendKinds, ConfigFiles(MaxEntries), Outputs(0)) /\ [][NextBatch]_vars

\* the dependency resolver on a constructed facade
NextResolve == Resolve({"A"})

SpecResolve == InitFacade(BackendKinds, OneConfig, Outputs(MaxOutLines)) /\ [][NextResolve]_vars

Spec == SpecTx

-----------------------------------------------------------------------------
(* What the log of a call shows.                                           *)

IsFacadeOp(e) == e.ev = "call" /\ e.op \in {"install", "remove"}

IsBackendOp(e) ==
    e.ev = "call" /\ e.op \in {"backend.install", "backend.remove", "backend.update",
                               "backend.upgrade", "backend.search",
                               "backend.list_installed"}

IsRun(e) == e.ev = "run"

\* an exception raised by a facade call, as opposed to the one commit raises
IsFailure(e) == e.ev = "raise" /\ e.exc # "TransactionError"

\* the install and remove calls made on the facade, in order
FacadeOps == SelectSeq(log, IsFacadeOp)

\* the Transaction action a facade call carries out
ActionOf(e) ==
    IF e.op = "install" THEN <<"install", e.args[1], e.args[2]>>
    ELSE <<"remove", e.args[1]>>

\* the compensating action of an action: remove for install, install without
\* version for remove
Compensation(action) ==
    IF action[1] = "install" THEN <<"remove", action[2]>>
    ELSE <<"install", action[2], None>>

\* the position of the first failure in the log, 0 when there is none
FirstFailure ==
    IF \E i \in 1..Len(log) : IsFailure(log[i])
    THEN CHOOSE i \in 1..Len(log) :
            IsFailure(log[i]) /\ \A j \in 1..(i - 1) : ~IsFailure(log[j])
    ELSE 0

\* the facade calls made before, and after, the first failure
OpsBeforeFailure == SelectSeq(SubSeq(log, 1, FirstFailure), IsFacadeOp)

OpsAfterFailure == SelectSeq(SubSeq(log, FirstFailure + 1, Len(log)), IsFacadeOp)

-----------------------------------------------------------------------------
(* The claims about Transaction, under SpecTx.                             *)

\* C1: when action ak of commit() is the first to raise, a compensating
\* operation is issued to the facade for each of a1..a(k-1), in the order
\* a(k-1), ..., a1, before commit() ends: remove(p) for Install(p), install(p)
\* for Remove(p).
C1_RollbackCompensates ==
    (lastCall = "commit" /\ FirstFailure > 0) =>
        LET k == Len(OpsBeforeFailure)
        IN  /\ Len(OpsAfterFailure) = k - 1
            /\ \A j \in 1..(k - 1) :
                  /\ ActionOf(OpsAfterFailure[j])[1] = Compensation(actions[k - j])[1]
                  /\ ActionOf(OpsAfterFailure[j])[2] = Compensation(actions[k - j])[2]

\* C2: commit() calls the facade's install/remove for the actions in the order
\* they were added, each action at most once and none skipped; once a call has
\* raised no later action is attempted; a commit that returns has attempted
\* them all.
C2_CommitInOrderAndStops ==
    lastCall = "commit" =>
        /\ Len(FacadeOps) <= Len(actions)
        /\ \A i \in 1..Len(FacadeOps) : ActionOf(FacadeOps[i]) = actions[i]
        /\ \A i \in 1..Len(log) : \A j \in (i + 1)..Len(log) :
              IsFailure(log[i]) => ~IsFacadeOp(log[j]) /\ ~IsRun(log[j])
        /\ (outcome.kind = "return" => Len(FacadeOps) = Len(actions))
        /\ (FirstFailure = 0 /\ proc.alive => Len(FacadeOps) = Len(actions))

\* [Install(A), Install(B), Remove(C)] committed with Install(B) failing:
\* install(A) and install(B) were called, remove(C) was not
C2_Witness ==
    /\ lastCall = "commit"
    /\ actions = <<<<"install", "A", None>>, <<"install", "B", "1.0">>, <<"remove", "C">>>>
    /\ outcome.kind = "raise"
    /\ Len(FacadeOps) = 2
    /\ FirstFailure > 0

\* C3: commit() ends by raising TransactionError exactly when a facade call
\* has raised, and raises nothing else; it raises after rollback() has been
\* called and has returned; the error carries the action whose call raised and
\* nothing fails between the call of rollback and the raise; when no call
\* raises (and none exits the process) commit() returns.
C3_TransactionErrorAfterRollback ==
    lastCall = "commit" =>
        /\ (FirstFailure > 0) <=> (outcome.kind = "raise")
        /\ outcome.kind = "raise" =>
              /\ outcome.exc = "TransactionError"
              /\ log[Len(log)] = EvRaise("TransactionError")
              /\ log[Len(log) - 1] = EvCall("rollback", <<>>)
              /\ FirstFailure = Len(log) - 2
              /\ Len(outcome.detail) = 1
              /\ outcome.detail[1][1] = actions[Len(FacadeOps)]
        /\ (FirstFailure = 0 /\ proc.alive) => outcome.kind = "return"

\* a commit whose second action failed has ended in TransactionError
C3_Witness ==
    /\ lastCall = "commit"
    /\ outcome.exc = "TransactionError"
    /\ Len(FacadeOps) = 2
    /\ outcome.detail[1][1] = <<"remove", "B">>

-----------------------------------------------------------------------------
(* The claim about the privilege check, under SpecPriv.                    *)

MutatingCalls == {"install", "remove", "update", "upgrade", "batch_install", "commit"}

\* C4: without elevated privilege a call of install, remove, update, upgrade
\* or batch_install, or a commit() that reaches one, enters no backend
\* operation, runs no external command and opens no config file; it ends the
\* process with status 1.  (A commit() of no actions reaches none of them and
\* returns.)
C4_NoPrivilegeNoSideEffect ==
    (~isRoot /\ lastCall \in MutatingCalls) =>
        /\ \A i \in 1..Len(log) :
              ~IsBackendOp(log[i]) /\ ~IsRun(log[i]) /\ log[i].ev # "open"
        /\ (lastCall # "commit" \/ actions # <<>>) =>
              /\ outcome.kind = "exit"
              /\ ~proc.alive
              /\ proc.status = 1
              /\ log[Len(log)] = EvExit(1)

\* batch_install called without privilege: the process has exited with 1
C4_Witness ==
    /\ ~isRoot
    /\ lastCall = "batch_install"
    /\ ~proc.alive
    /\ proc.status = 1
    /\ Len(Get(configFile.data, "packages", <<>>)) = 2

-----------------------------------------------------------------------------
(* The claims about batch_install, under SpecBatch.                        *)

Entries == Get(configFile.data, "packages", <<>>)

IsFacadeInstall(e) == e.ev = "call" /\ e.op = "install"

IsBackendInstall(e) == e.ev = "call" /\ e.op = "backend.install"

Installs == SelectSeq(log, IsFacadeInstall)

\* C6: batch_install calls install once per entry of the packages list, in
\* file order, with the entry's name and version; when the install of entry k
\* raises, no entry after k is attempted, nothing is undone, and the call ends
\* with that very exception; when none raises every entry is installed and
\* the call returns.
C6_BatchFailFast ==
    (lastCall = "batch_install" /\ isRoot) =>
        /\ Len(Installs) <= Len(Entries)
        /\ \A i \in 1..Len(Installs) :
              Installs[i].args = <<Get(Entries[i], "name", None),
                                   Get(Entries[i], "version", None)>>
        /\ \A i \in 1..Len(log) :
              /\ ~(log[i].ev = "call" /\ log[i].op \in {"remove", "backend.remove"})
              /\ (IsRun(log[i]) /\ i < Len(log) - 1) => log[i].rc = 0
        /\ FirstFailure = 0 => (Len(Installs) = Len(Entries) /\ outcome.kind = "return")
        /\ FirstFailure > 0 =>
              /\ FirstFailure = Len(log)
              /\ outcome.kind = "raise"
              /\ outcome.exc = log[FirstFailure].exc
              /\ outcome.exc = "CalledProcessError" =>
                    /\ log[Len(log) - 1].rc # 0
                    /\ outcome.detail = log[Len(log) - 1].argv

\* of two entries the first has failed, the second was never attempted
C6_Witness ==
    /\ lastCall = "batch_install"
    /\ isRoot
    /\ Len(Entries) = 2
    /\ Len(Installs) = 1
    /\ outcome.exc = "CalledProcessError"

\* C9: an entry of the packages list that has no name never reaches the
\* backend: backend.install is not called with an absent or empty name, and
\* the batch ends in an error.
C9_NamelessEntryRejected ==
    (lastCall = "batch_install" /\ isRoot) =>
        /\ \A i \in 1..Len(log) : IsBackendInstall(log[i]) => TruthyStr(log[i].args[1])
        /\ (\E i \in 1..Len(Installs) : ~TruthyStr(Installs[i].args[1])) =>
              outcome.kind = "raise"

-----------------------------------------------------------------------------
(* The claim about the resolver, under SpecResolve.                        *)

\* the text of a line between its first marker and the next, without the
\* white space around it
EntryOf(line) ==
    LET rest == SubSeq(line, Find(line, Marker) + Len(Marker), Len(line))
        stop == Find(rest, Marker)
    IN  Strip(IF stop = 0 THEN rest ELSE SubSeq(rest, 1, stop - 1), Whitespace)

\* the printed lines that hold the marker
MarkedLines == {i \in 1..Len(queryOut.lines) : Contains(queryOut.lines[i], Marker)}

\* the first printed line whose entry is dep
FirstLineOf(dep) ==
    CHOOSE i \in MarkedLines :
        /\ EntryOf(queryOut.lines[i]) = dep
        /\ \A j \in MarkedLines : EntryOf(queryOut.lines[j]) = dep => i <= j

\* C10: on an APT-bound facade resolve returns the entries of the marked
\* lines, each once, in the order of their first occurrence; on a DNF- or
\* Pacman-bound facade it returns the printed lines, all of them, in order;
\* an empty output gives an empty sequence.
C10_ResolveDedupOnlyApt ==
    lastCall = "resolve" =>
        LET deps == outcome.value
        IN  /\ outcome.kind = "return"
            /\ pm.backend \in {"DNF", "Pacman"} => deps = queryOut.lines
            /\ pm.backend = "APT" =>
                  /\ \A i, j \in 1..Len(deps) : deps[i] = deps[j] => i = j
                  /\ {deps[i] : i \in 1..Len(deps)}
                        = {EntryOf(queryOut.lines[i]) : i \in MarkedLines}
                  /\ \A i, j \in 1..Len(deps) :
                        i < j => FirstLineOf(deps[i]) < FirstLineOf(deps[j])
            /\ queryOut.text = "" => deps = <<>>

\* three marked lines, the third repeating the first: APT returns two entries
C10_Witness ==
    /\ lastCall = "resolve"
    /\ pm.backend = "APT"
    /\ queryOut.lines = <<Marker \o " a", "  " \o Marker \o " b  ", Marker \o " a">>
    /\ outcome.value = <<"a", "b">>

-----------------------------------------------------------------------------
(* The claims about detection and construction, under SpecDistro.          *)

Families == {"debian", "redhat", "arch", "gentoo"}

FamilyKeywords(family) ==
    CASE family = "debian" -> {"debian", "ubuntu"}
      [] family = "redhat" -> {"rhel", "centos", "fedora"}
      [] family = "arch"   -> {"arch"}
      [] family = "gentoo" -> {"gentoo"}

\* keyword kw stands in id at position i, whatever the case of id's letters
KeywordAt(id, kw, i) ==
    /\ i + Len(kw) - 1 <= Len(id)
    /\ \A j \in 1..Len(kw) : LowerChar(Char(id, i + j - 1)) = Char(kw, j)

\* the ID the descriptor declares holds a keyword of the family
Like(family) ==
    /\ hostId # None
    /\ \E kw \in FamilyKeywords(family) : \E i \in 1..Len(hostId) : KeywordAt(hostId, kw, i)

\* what is_<family>_based returned, as a truth value
Classified(family) ==
    Truthy(outcome.value[CASE family = "debian" -> 1 [] family = "redhat" -> 2
                           [] family = "arch" -> 3 [] family = "gentoo" -> 4])

\* C8 as stated: when the ID holds a keyword of a family, the predicate of
\* that family is true and the other three are false.
C8_ExactlyOneFamily ==
    lastCall = "classify" =>
        \A f \in Families :
            Like(f) => (Classified(f) /\ \A g \in Families \ {f} : ~Classified(g))

\* C8 as amended: each predicate is true exactly when the ID holds a keyword
\* of its family, so exactly one is true when the keywords the ID holds are
\* of one family, and several are when they are of several.
C8_PredicateIffKeyword ==
    lastCall = "classify" => \A f \in Families : Classified(f) <=> Like(f)

\* a quoted ID in capitals among lines naming other families: gentoo only
C8_Witness ==
    /\ lastCall = "classify"
    /\ hostId = "GENTOO"
    /\ Len(osRelease.lines) = 3
    /\ Classified("gentoo")
    /\ ~Classified("arch")

\* the backend the priority debian, redhat, arch gives the declared ID, ""
\* when it is of none of the three
Priority ==
    IF Like("debian") THEN "APT"
    ELSE IF Like("redhat") THEN "DNF"
    ELSE IF Like("arch") THEN "Pacman"
    ELSE ""

Constructed(kind) ==
    /\ outcome.kind = "return"
    /\ pm = [made |-> TRUE, backend |-> kind]

Unsupported ==
    /\ outcome.kind = "raise"
    /\ outcome.exc = "UnsupportedDistributionError"
    /\ ~pm.made

\* C7 as stated, its part about construction: a missing descriptor, an ID
\* without family keyword and a gentoo-like ID make the constructor raise
\* UnsupportedDistributionError; any other binds the backend of the priority.
C7_GentooLikeFails ==
    lastCall = "PackageManager" =>
        IF ~osRelease.exists \/ (\A f \in Families : ~Like(f)) \/ Like("gentoo")
        THEN Unsupported
        ELSE Constructed(Priority)

\* C7 as amended: the constructor raises UnsupportedDistributionError when the
\* descriptor is missing or its ID holds no debian, redhat or arch keyword (a
\* gentoo-like ID among them), and otherwise binds the backend of the
\* priority, also when the ID is gentoo-like as well.
C7_Construction ==
    lastCall = "PackageManager" =>
        IF Priority = "" THEN Unsupported ELSE Constructed(Priority)

\* the binding of a constructed facade never changes
C7_BindingKept == pm.made => pm' = pm

\* C7 as amended, whole: every construction ends as C7_Construction says, and
\* no later call (install, remove, update, upgrade, search, list_installed,
\* batch_install, resolve) nor a change of the descriptor file alters the
\* binding.
C7_BackendByPriorityAndKept == []C7_Construction /\ [][C7_BindingKept]_vars

\* a facade bound to Pacman on an arch host, still bound to it after the
\* descriptor has become ubuntu's and batch_install has run
C7_Witness ==
    /\ pm = [made |-> TRUE, backend |-> "Pacman"]
    /\ hostId = "ubuntu"
    /\ lastCall = "batch_install"

=====
